---- MODULE Spec2Model ----
(***************************************************************************)
(* A model of the OpenAI completion MCP server (src/src/index.ts) and its  *)
(* argument validator (src/unnamed/part_001).                              *)
(*                                                                         *)
(* The server runs on one Node.js event loop.  One action of the model is  *)
(* one macrotask together with the microtasks it triggers: an await        *)
(* continuation runs in the same action as the event that settles the      *)
(* awaited promise, because no timer callback and no host call can run     *)
(* between the two.                                                        *)
(***************************************************************************)
EXTENDS Integers, Sequences, FiniteSets, TLC

VARIABLES
    now,          \* Date.now(), in ms
    activeTasks,  \* OpenAICompleteMcpServer.activeTasks : Map<string, CompletionTask>
    aborted,      \* abortController.signal.aborted of each invocation's controller
    race,         \* position of each invocation of complete(): "idle" | "pending" | "settled"
    raceResult,   \* what each invocation's Promise.race settled with
    api,          \* state of each outbound promise: "none" | "pending" | "settled"
    apiCalls,     \* the parameters of every outbound call issued, per task, in order
    timers,       \* Node's timer list for COMPLETION_TIMEOUT_MS, in insertion order
    response,     \* what handleCompleteTool delivered to the caller, per task
    lastError,    \* the protocol error of the last request answered without a task
    statusLog,    \* observation: the status values each task object took, in order
    cancelTrue,   \* observation: how often cancelTask returned true, per identifier
    terminalAt,   \* observation: when each task first took a terminal status (-1: not yet)
    settledAt,    \* observation: when each invocation was answered (-1: not yet)
    vInput,       \* the value handed to isValidCompletionArgs (validator specification)
    vResult       \* what isValidCompletionArgs returned: "none" | "true" | "false"

vars == <<now, activeTasks, aborted, race, raceResult, api, apiCalls, timers, response, lastError,
          statusLog, cancelTrue, terminalAt, settledAt, vInput, vResult>>

----------------------------------------------------------------------------
(* Bounds of the model *)

NumTasks == 2
MaxTime == 120000
TickMs == 30000

TaskIds == 1..NumTasks

----------------------------------------------------------------------------
(* Program constants *)

COMPLETION_TIMEOUT_MS == 60000
DEFAULT_MODEL == "text-davinci-003"
\* Numbers the program only passes through are kept as their literals.
DEFAULT_MAX_TOKENS == "150"
DEFAULT_TEMPERATURE == "0.7"
DEFAULT_TOP_P == "1.0"
DEFAULT_FREQUENCY_PENALTY == "0.0"
DEFAULT_PRESENCE_PENALTY == "0.0"

\* CompletionStatusEnum
Pending == "pending"
Processing == "processing"
Complete == "complete"
Error == "error"

\* JavaScript's undefined, for a field that holds text
Undefined == "undefined"

----------------------------------------------------------------------------
(* JavaScript values, as far as the validator looks at them *)

JsUndefined == [tag |-> "undefined"]
JsNull == [tag |-> "null"]
JsString(s) == [tag |-> "string", val |-> s]
JsNumber(n) == [tag |-> "number", val |-> n]
JsBoolean(b) == [tag |-> "boolean", val |-> b]
JsArray == [tag |-> "array"]
JsObject(f) == [tag |-> "object", fields |-> f]

\* typeof v
TypeOf(v) ==
    CASE v.tag = "null" -> "object"
      [] v.tag = "array" -> "object"
      [] OTHER -> v.tag

\* v[k] for a non-null object v: undefined when the property is absent
GetField(v, k) ==
    IF v.tag = "object" /\ k \in DOMAIN v.fields THEN v.fields[k] ELSE JsUndefined

optionalNumericParams ==
    <<"max_tokens", "temperature", "top_p", "frequency_penalty", "presence_penalty">>

\* mutant: the optional parameters are not looked at
CheckOptionalFrom_Skip(candidate, i) == TRUE

\* the loop of isValidCompletionArgs over optionalNumericParams, from index i on:
\* FALSE at the first parameter that is present and not a number
RECURSIVE CheckOptionalFrom(_, _)
CheckOptionalFrom(candidate, i) ==
    IF i > Len(optionalNumericParams) THEN TRUE
    ELSE LET v == GetField(candidate, optionalNumericParams[i])
         IN  IF v # JsUndefined /\ TypeOf(v) # "number" THEN FALSE
             ELSE CheckOptionalFrom(candidate, i + 1)

\* mutant: the prompt only has to be there
PromptIsString_Present(candidate) == GetField(candidate, "prompt") # JsUndefined

\* typeof candidate.prompt === 'string'
PromptIsString(candidate) == TypeOf(GetField(candidate, "prompt")) = "string"

isValidCompletionArgs(args) ==
    IF TypeOf(args) # "object" \/ args = JsNull THEN FALSE
    ELSE IF ~PromptIsString(args) THEN FALSE
    ELSE CheckOptionalFrom(args, 1)

----------------------------------------------------------------------------
(* Errors and responses *)

\* new CompletionTimeoutError(): the default message of the class
CompletionTimeoutError ==
    [class |-> "CompletionTimeoutError", code |-> "InvalidRequest",
     message |-> "OpenAI API request timed out"]
\* new CompletionCancelledError()
CompletionCancelledError ==
    [class |-> "CompletionCancelledError", code |-> "InvalidRequest",
     message |-> "OpenAI API request was cancelled"]
\* new McpError(code, message)
McpError(code, message) == [class |-> "McpError", code |-> code, message |-> message]

\* what the outbound call rejects with: an error of the client library.  Once the
\* signal is aborted the library rejects with its abort error.
ApiErrors == { [class |-> "APIError", message |-> "401 Incorrect API key"] }
ApiAbortError == [class |-> "APIUserAbortError", message |-> "Request was aborted."]

\* what the outbound call resolves with: choices[0].text, choices[0].finish_reason, usage
NoUsage == [absent |-> TRUE]
SomeUsage == [prompt_tokens |-> "4", completion_tokens |-> "2", total_tokens |-> "6"]
ApiResponses ==
    { [text |-> Undefined, finish_reason |-> Undefined, usage |-> NoUsage],
      [text |-> "", finish_reason |-> "stop", usage |-> SomeUsage],
      [text |-> " there was", finish_reason |-> "length", usage |-> SomeUsage] }

\* mutant: the text is taken as it is, without the fallback
TextOrEmpty_NoFallback(x) == x

\* x || ''
TextOrEmpty(x) == IF x = Undefined \/ x = "" THEN "" ELSE x
\* x || undefined
ValueOrUndefined(x) == IF x = Undefined \/ x = "" THEN Undefined ELSE x

NoResult == [absent |-> TRUE]

\* the CompletionResponse complete() builds from the upstream response
CompletionResult(resp) ==
    [text |-> TextOrEmpty(resp.text),
     model |-> DEFAULT_MODEL,
     finish_reason |-> ValueOrUndefined(resp.finish_reason),
     usage |-> IF resp.usage # NoUsage
               THEN [prompt_tokens |-> resp.usage.prompt_tokens,
                     completion_tokens |-> resp.usage.completion_tokens,
                     total_tokens |-> resp.usage.total_tokens]
               ELSE NoUsage]

NoResponse == [kind |-> "none"]
TextContent(text) == [kind |-> "content", content |-> <<[type |-> "text", text |-> text]>>]
ProtocolError(e) == [kind |-> "error", code |-> e.code, message |-> e.message]

TimeoutText ==
    "The completion request timed out. Please try again with a shorter prompt or fewer tokens."
CancelledText == "The request was cancelled."

\* mutant: the instanceof test fails for the errors of the client library
ErrorMessage_Unknown(error) == "Unknown error"

\* error instanceof Error ? error.message : 'Unknown error'
\* (everything the race rejects with is an Error)
ErrorMessage(error) == error.message

\* mutant: the aborted signal is looked at before the class of the error
ThrownByComplete_AbortFirst(error, signalAborted) ==
    IF signalAborted
    THEN CompletionCancelledError
    ELSE IF error.class = "CompletionTimeoutError" \/ error.class = "CompletionCancelledError"
    THEN error
    ELSE McpError("InvalidRequest", <<"OpenAI API error: ", ErrorMessage(error)>>)

\* what the catch block of complete() throws for the error it caught
ThrownByComplete(error, signalAborted) ==
    IF error.class = "CompletionTimeoutError" \/ error.class = "CompletionCancelledError"
    THEN error
    ELSE IF signalAborted
    THEN CompletionCancelledError
    ELSE McpError("InvalidRequest", <<"OpenAI API error: ", ErrorMessage(error)>>)

\* the catch block of handleCompleteTool: the response for what complete() threw
ResponseForThrown(thrown) ==
    IF thrown.class = "CompletionTimeoutError" THEN TextContent(TimeoutText)
    ELSE IF thrown.class = "CompletionCancelledError" THEN TextContent(CancelledText)
    ELSE ProtocolError(thrown)

----------------------------------------------------------------------------
(* The task registry: this.activeTasks *)

Has(tasks, taskId) == taskId \in DOMAIN tasks

\* this.activeTasks.set(taskId, task)
MapSet(tasks, taskId, task) ==
    [k \in DOMAIN tasks \cup {taskId} |-> IF k = taskId THEN task ELSE tasks[k]]

\* mutant: the removal clears the registry
MapDelete_All(tasks, taskId) == <<>>

\* this.activeTasks.delete(taskId)
MapDelete(tasks, taskId) == [k \in DOMAIN tasks \ {taskId} |-> tasks[k]]

\* the task object complete() creates
NewTask(time) ==
    [status |-> Pending,
     result |-> NoResult,
     error |-> Undefined,
     created_at |-> time,
     timeout_at |-> time + COMPLETION_TIMEOUT_MS,
     progress |-> 0]

\* const t = this.activeTasks.get(taskId);
\* if (t) { t.status = Error; t.error = message; this.activeTasks.set(taskId, t) }
MarkError(tasks, taskId, message) ==
    IF Has(tasks, taskId)
    THEN [tasks EXCEPT ![taskId].status = Error, ![taskId].error = message]
    ELSE tasks

\* the success update of complete()
MarkComplete(tasks, taskId, completionResult) ==
    IF Has(tasks, taskId)
    THEN [tasks EXCEPT ![taskId].status = Complete,
                       ![taskId].result = completionResult,
                       ![taskId].progress = 100]
    ELSE tasks

\* mutant: a task that is already Complete can be cancelled
CanCancel_IgnoresComplete(tasks, taskId) ==
    /\ Has(tasks, taskId)
    /\ tasks[taskId].status # Error

\* mutant: a task that is already Error can be cancelled again
CanCancel_IgnoresError(tasks, taskId) ==
    /\ Has(tasks, taskId)
    /\ tasks[taskId].status # Complete

\* the guard of cancelTask
CanCancel(tasks, taskId) ==
    /\ Has(tasks, taskId)
    /\ tasks[taskId].status # Complete
    /\ tasks[taskId].status # Error

IsTerminal(status) == status = Complete \/ status = Error

----------------------------------------------------------------------------
(* Observation of a task's status and of the moments the claims speak about *)

Last(seq) == seq[Len(seq)]

\* the log with the status the task has in `tasks` appended, if it differs from the last
Observe(log, tasks, taskId) ==
    IF Has(tasks, taskId) /\ (log = <<>> \/ Last(log) # tasks[taskId].status)
    THEN Append(log, tasks[taskId].status)
    ELSE log

\* the time a task first has a terminal status
FirstTerminal(old, tasks, taskId) ==
    IF old = -1 /\ Has(tasks, taskId) /\ IsTerminal(tasks[taskId].status) THEN now ELSE old

----------------------------------------------------------------------------
(* Timers: every setTimeout of the program has the delay COMPLETION_TIMEOUT_MS, so *)
(* Node keeps them in one list and runs them in the order they were armed.         *)

\* mutant: the callback is armed with no delay
SetTimeout_NoDelay(list, kind, taskId) ==
    Append(list, [kind |-> kind, taskId |-> taskId, due |-> now])

\* setTimeout(callback, COMPLETION_TIMEOUT_MS)
SetTimeout(list, kind, taskId) ==
    Append(list, [kind |-> kind, taskId |-> taskId, due |-> now + COMPLETION_TIMEOUT_MS])

TimerDue == timers # <<>> /\ Head(timers).due <= now

Min(a, b) == IF a <= b THEN a ELSE b

----------------------------------------------------------------------------
(* Inputs *)

ToolNames == {"complete", "foo"}

Prompt == "Once upon a time"

\* request.params.arguments of the requests the model sends
RequestArgs ==
    { JsUndefined,
      JsObject([prompt |-> JsString(Prompt)]),
      JsObject([prompt |-> JsString(Prompt), max_tokens |-> JsNumber("16"),
                temperature |-> JsNumber("0"), stream |-> JsBoolean(TRUE),
                model |-> JsString("gpt-4")]),
      JsObject([prompt |-> JsString(Prompt), top_p |-> JsString("high")]) }

\* the values handed to isValidCompletionArgs in the validator specification
FieldNames ==
    {"prompt", "max_tokens", "temperature", "top_p", "frequency_penalty",
     "presence_penalty", "stream"}
FieldValues == {JsString("text"), JsNumber("1"), JsNull}
ValidatorInputs ==
    {JsUndefined, JsNull, JsString(Prompt), JsNumber("1"), JsBoolean(TRUE), JsArray}
    \cup {JsObject(f) : f \in UNION {[D -> FieldValues] : D \in SUBSET FieldNames}}

\* mutant: the caller's value is ignored
ParamOrDefault_AlwaysDefault(args, name, default) == default

\* `name = DEFAULT` in the destructuring of complete(): the default when undefined
ParamOrDefault(args, name, default) ==
    IF GetField(args, name) = JsUndefined THEN default ELSE GetField(args, name).val

\* the body makeApiCall passes to this.openai.completions.create
ApiCallParams(args) ==
    [model |-> DEFAULT_MODEL,
     prompt |-> GetField(args, "prompt").val,
     max_tokens |-> ParamOrDefault(args, "max_tokens", DEFAULT_MAX_TOKENS),
     temperature |-> ParamOrDefault(args, "temperature", DEFAULT_TEMPERATURE),
     top_p |-> ParamOrDefault(args, "top_p", DEFAULT_TOP_P),
     frequency_penalty |-> ParamOrDefault(args, "frequency_penalty", DEFAULT_FREQUENCY_PENALTY),
     presence_penalty |-> ParamOrDefault(args, "presence_penalty", DEFAULT_PRESENCE_PENALTY)]

----------------------------------------------------------------------------
(* The state after construction *)

NoError == [kind |-> "none"]

\* the settled value of Promise.race([makeApiCall(...), createTimeoutPromise(taskId)])
NotSettled == [kind |-> "pending"]
Resolved(resp) == [kind |-> "resolved", value |-> resp]
Rejected(error) == [kind |-> "rejected", value |-> error]

Init ==
    /\ now = 0
    /\ activeTasks = <<>>
    /\ aborted = [t \in TaskIds |-> FALSE]
    /\ race = [t \in TaskIds |-> "idle"]
    /\ raceResult = [t \in TaskIds |-> NotSettled]
    /\ api = [t \in TaskIds |-> "none"]
    /\ apiCalls = [t \in TaskIds |-> <<>>]
    /\ timers = <<>>
    /\ response = [t \in TaskIds |-> NoResponse]
    /\ lastError = NoError
    /\ statusLog = [t \in TaskIds |-> <<>>]
    /\ cancelTrue = [t \in TaskIds |-> 0]
    /\ terminalAt = [t \in TaskIds |-> -1]
    /\ settledAt = [t \in TaskIds |-> -1]
    /\ vInput = JsUndefined
    /\ vResult = "none"

\* the observations that follow from the registry an action leaves
ObserveTasks(logBefore) ==
    /\ statusLog' = [t \in TaskIds |-> Observe(logBefore[t], activeTasks', t)]
    /\ terminalAt' = [t \in TaskIds |-> FirstTerminal(terminalAt[t], activeTasks', t)]

----------------------------------------------------------------------------
(* complete(): from its start to the await of the race *)

\* mutant: the outbound call is issued twice
StartComplete_CallsTwice(taskId, args) ==
    LET created == MapSet(activeTasks, taskId, NewTask(now))
        processing == MapSet(created, taskId, [created[taskId] EXCEPT !.status = Processing])
    IN  /\ activeTasks' = processing
        /\ aborted' = [aborted EXCEPT ![taskId] = FALSE]
        /\ apiCalls' = [apiCalls EXCEPT ![taskId] = Append(Append(@, ApiCallParams(args)), ApiCallParams(args))]
        /\ api' = [api EXCEPT ![taskId] = "pending"]
        /\ timers' = SetTimeout(timers, "timeout", taskId)
        /\ race' = [race EXCEPT ![taskId] = "pending"]
        /\ ObserveTasks([statusLog EXCEPT ![taskId] = Observe(@, created, taskId)])
        /\ UNCHANGED <<now, raceResult, response, lastError, cancelTrue, settledAt,
                       vInput, vResult>>

StartComplete(taskId, args) ==
    LET created == MapSet(activeTasks, taskId, NewTask(now))
        processing == MapSet(created, taskId, [created[taskId] EXCEPT !.status = Processing])
    IN  /\ activeTasks' = processing
        /\ aborted' = [aborted EXCEPT ![taskId] = FALSE]
        /\ apiCalls' = [apiCalls EXCEPT ![taskId] = Append(@, ApiCallParams(args))]
        /\ api' = [api EXCEPT ![taskId] = "pending"]
        /\ timers' = SetTimeout(timers, "timeout", taskId)
        /\ race' = [race EXCEPT ![taskId] = "pending"]
        /\ ObserveTasks([statusLog EXCEPT ![taskId] = Observe(@, created, taskId)])
        /\ UNCHANGED <<now, raceResult, response, lastError, cancelTrue, settledAt,
                       vInput, vResult>>

\* the rest of complete() and of handleCompleteTool once the race resolved with resp
FinishResolved(taskId, resp, timersNow) ==
    LET completionResult == CompletionResult(resp)
    IN  /\ activeTasks' = MarkComplete(activeTasks, taskId, completionResult)
        /\ timers' = SetTimeout(timersNow, "delete", taskId)
        /\ response' = [response EXCEPT ![taskId] = TextContent(completionResult.text)]
        /\ race' = [race EXCEPT ![taskId] = "settled"]
        /\ raceResult' = [raceResult EXCEPT ![taskId] = Resolved(resp)]
        /\ settledAt' = [settledAt EXCEPT ![taskId] = now]

\* mutant: the removal is armed on success only, not in a finally block
FinishRejected_NoCleanup(taskId, error, tasksNow, timersNow) ==
    /\ activeTasks' = MarkError(tasksNow, taskId, ErrorMessage(error))
    /\ timers' = timersNow
    /\ response' = [response EXCEPT ![taskId] =
                       ResponseForThrown(ThrownByComplete(error, aborted[taskId]))]
    /\ race' = [race EXCEPT ![taskId] = "settled"]
    /\ raceResult' = [raceResult EXCEPT ![taskId] = Rejected(error)]
    /\ settledAt' = [settledAt EXCEPT ![taskId] = now]

\* the rest of complete() and of handleCompleteTool once the race rejected with error;
\* tasksNow and timersNow are the registry and the timer list at that moment
FinishRejected(taskId, error, tasksNow, timersNow) ==
    /\ activeTasks' = MarkError(tasksNow, taskId, ErrorMessage(error))
    /\ timers' = SetTimeout(timersNow, "delete", taskId)
    /\ response' = [response EXCEPT ![taskId] =
                       ResponseForThrown(ThrownByComplete(error, aborted[taskId]))]
    /\ race' = [race EXCEPT ![taskId] = "settled"]
    /\ raceResult' = [raceResult EXCEPT ![taskId] = Rejected(error)]
    /\ settledAt' = [settledAt EXCEPT ![taskId] = now]

----------------------------------------------------------------------------
(* The request handler for CallToolRequestSchema, with handleCompleteTool *)

\* uuidv4(): an identifier no task had before.  Identifiers are interchangeable, so
\* the model hands them out in order.
UnusedIds == {t \in TaskIds : race[t] = "idle"}
uuidv4 == CHOOSE t \in UnusedIds : \A u \in UnusedIds : t <= u

\* the model takes a new invocation only while its timeout deadline is within MaxTime
WithinHorizon == now + COMPLETION_TIMEOUT_MS <= MaxTime

\* mutant: every tool name is taken for the completion tool
KnownTool_Any(name) == TRUE

\* the test of request.params.name
KnownTool(name) == name = "complete"

CallTool(name, arguments) ==
    LET args == IF arguments = JsUndefined THEN JsObject(<<>>) ELSE arguments
    IN  IF ~KnownTool(name)
        THEN /\ lastError' = ProtocolError(McpError("MethodNotFound", <<"Unknown tool: ", name>>))
             /\ UNCHANGED <<now, activeTasks, aborted, race, raceResult, api, apiCalls, timers,
                            response,
                            statusLog, cancelTrue, terminalAt, settledAt,
                            vInput, vResult>>
        ELSE IF ~isValidCompletionArgs(args)
        THEN /\ lastError' = ProtocolError(McpError("InvalidParams",
                                                    <<"Invalid completion arguments">>))
             /\ UNCHANGED <<now, activeTasks, aborted, race, raceResult, api, apiCalls, timers,
                            response,
                            statusLog, cancelTrue, terminalAt, settledAt,
                            vInput, vResult>>
        ELSE /\ UnusedIds # {}
             /\ WithinHorizon
             /\ StartComplete(uuidv4, args)

----------------------------------------------------------------------------
(* Settlement of the outbound call: this.openai.completions.create(...)      *)
(* The client library is outside the program: it may resolve, reject or stay *)
(* pending at any time, whether or not the signal was aborted.               *)

ApiResolves(taskId, resp) ==
    /\ api[taskId] = "pending"
    /\ api' = [api EXCEPT ![taskId] = "settled"]
    /\ IF race[taskId] = "pending"
       THEN /\ FinishResolved(taskId, resp, timers)
            /\ ObserveTasks(statusLog)
       ELSE UNCHANGED <<activeTasks, timers, response, race, raceResult, settledAt, statusLog,
                       terminalAt>>
    /\ UNCHANGED <<now, aborted, apiCalls, lastError, cancelTrue, vInput, vResult>>

ApiRejects(taskId, error) ==
    /\ api[taskId] = "pending"
    /\ error = ApiAbortError => aborted[taskId]
    /\ api' = [api EXCEPT ![taskId] = "settled"]
    /\ IF race[taskId] = "pending"
       THEN /\ FinishRejected(taskId, error, activeTasks, timers)
            /\ ObserveTasks(statusLog)
       ELSE UNCHANGED <<activeTasks, timers, response, race, raceResult, settledAt, statusLog,
                       terminalAt>>
    /\ UNCHANGED <<now, aborted, apiCalls, lastError, cancelTrue, vInput, vResult>>

----------------------------------------------------------------------------
(* The callbacks of setTimeout *)

\* mutant: the timer callback marks the task and never rejects
TimeoutFires_NoReject ==
    /\ TimerDue
    /\ Head(timers).kind = "timeout"
    /\ LET taskId == Head(timers).taskId
           marked == MarkError(activeTasks, taskId, "Completion timed out")
       IN  /\ activeTasks' = marked
           /\ timers' = Tail(timers)
           /\ UNCHANGED <<response, race, raceResult, settledAt>>
           /\ ObserveTasks(statusLog)
    /\ UNCHANGED <<now, aborted, api, apiCalls, lastError, cancelTrue,
                   vInput, vResult>>

\* mutant: the timer callback also aborts the outbound call
TimeoutFires_Aborts ==
    /\ TimerDue
    /\ Head(timers).kind = "timeout"
    /\ LET taskId == Head(timers).taskId
           marked == MarkError(activeTasks, taskId, "Completion timed out")
       IN  /\ IF race[taskId] = "pending"
              THEN FinishRejected(taskId, CompletionTimeoutError, marked, Tail(timers))
              ELSE /\ activeTasks' = marked
                   /\ timers' = Tail(timers)
                   /\ UNCHANGED <<response, race, raceResult, settledAt>>
           /\ ObserveTasks(statusLog)
    /\ aborted' = [aborted EXCEPT ![Head(timers).taskId] = TRUE]
    /\ UNCHANGED <<now, api, apiCalls, lastError, cancelTrue,
                   vInput, vResult>>

\* the callback createTimeoutPromise arms, and what its reject() sets off
TimeoutFires ==
    /\ TimerDue
    /\ Head(timers).kind = "timeout"
    /\ LET taskId == Head(timers).taskId
           marked == MarkError(activeTasks, taskId, "Completion timed out")
       IN  /\ IF race[taskId] = "pending"
              THEN FinishRejected(taskId, CompletionTimeoutError, marked, Tail(timers))
              ELSE /\ activeTasks' = marked
                   /\ timers' = Tail(timers)
                   /\ UNCHANGED <<response, race, raceResult, settledAt>>
           /\ ObserveTasks(statusLog)
    /\ UNCHANGED <<now, aborted, api, apiCalls, lastError, cancelTrue,
                   vInput, vResult>>

\* the callback the finally block of complete() arms
DeleteFires ==
    /\ TimerDue
    /\ Head(timers).kind = "delete"
    /\ activeTasks' = MapDelete(activeTasks, Head(timers).taskId)
    /\ timers' = Tail(timers)
    /\ UNCHANGED <<now, aborted, race, raceResult, api, apiCalls, response, lastError, statusLog,
                   cancelTrue, terminalAt, settledAt, vInput, vResult>>

----------------------------------------------------------------------------
(* cancelTask(taskId), called by the host *)

CancelTask(taskId) ==
    /\ IF CanCancel(activeTasks, taskId)
       THEN \* returns true
            /\ aborted' = [aborted EXCEPT ![taskId] = TRUE]
            /\ activeTasks' = [activeTasks EXCEPT ![taskId].status = Error,
                                                  ![taskId].error = "Task cancelled by user"]
            /\ cancelTrue' = [cancelTrue EXCEPT ![taskId] = @ + 1]
       ELSE \* returns false
            UNCHANGED <<aborted, activeTasks, cancelTrue>>
    /\ ObserveTasks(statusLog)
    /\ UNCHANGED <<now, race, raceResult, api, apiCalls, timers, response, lastError, settledAt,
                   vInput, vResult>>

----------------------------------------------------------------------------
(* Time passes: to the next sampled instant, or to the moment the earliest timer is due *)

Tick ==
    /\ now < MaxTime
    /\ ~TimerDue
    /\ now' = Min(Min(now + TickMs, MaxTime),
                  IF timers = <<>> THEN MaxTime ELSE Head(timers).due)
    /\ UNCHANGED <<activeTasks, aborted, race, raceResult, api, apiCalls, timers, response,
                   lastError,
                   statusLog, cancelTrue, terminalAt, settledAt, vInput, vResult>>

Next ==
    \/ \E name \in ToolNames, arguments \in RequestArgs : CallTool(name, arguments)
    \/ \E taskId \in TaskIds, resp \in ApiResponses : ApiResolves(taskId, resp)
    \/ \E taskId \in TaskIds, error \in ApiErrors \cup {ApiAbortError} : ApiRejects(taskId, error)
    \/ TimeoutFires
    \/ DeleteFires
    \/ \E taskId \in TaskIds : CancelTask(taskId)
    \/ Tick

Spec == Init /\ [][Next]_vars

\* Time passes, and the event loop runs every callback whose timer is due.
SpecFair ==
    /\ Init /\ [][Next]_vars
    /\ WF_vars(Tick)
    /\ WF_vars(TimeoutFires)
    /\ WF_vars(DeleteFires)

----------------------------------------------------------------------------
(* The validator on its own: any value in, its answer out *)

InitValidator ==
    /\ now = 0
    /\ activeTasks = <<>>
    /\ aborted = [t \in TaskIds |-> FALSE]
    /\ race = [t \in TaskIds |-> "idle"]
    /\ raceResult = [t \in TaskIds |-> NotSettled]
    /\ api = [t \in TaskIds |-> "none"]
    /\ apiCalls = [t \in TaskIds |-> <<>>]
    /\ timers = <<>>
    /\ response = [t \in TaskIds |-> NoResponse]
    /\ lastError = NoError
    /\ statusLog = [t \in TaskIds |-> <<>>]
    /\ cancelTrue = [t \in TaskIds |-> 0]
    /\ terminalAt = [t \in TaskIds |-> -1]
    /\ settledAt = [t \in TaskIds |-> -1]
    /\ vInput \in ValidatorInputs
    /\ vResult = "none"

Validate ==
    /\ vResult = "none"
    /\ vResult' = IF isValidCompletionArgs(vInput) THEN "true" ELSE "false"
    /\ UNCHANGED <<now, activeTasks, aborted, race, raceResult, api, apiCalls, timers,
                            response, lastError,
                   statusLog, cancelTrue, terminalAt, settledAt, vInput>>

NextValidator == Validate

SpecValidator == InitValidator /\ [][NextValidator]_vars

----------------------------------------------------------------------------
(* Claims *)

Started(t) == race[t] # "idle"
IsPrefix(a, b) == Len(a) <= Len(b) /\ \A i \in DOMAIN a : a[i] = b[i]
TimedOut(t) ==
    raceResult[t].kind = "rejected" /\ raceResult[t].value.class = "CompletionTimeoutError"

\* C1: the status values a task takes are, in order, Pending, Processing, Complete or
\* Pending, Processing, Error: nothing changes the status once it is Complete or Error.
C1_StatusSequence ==
    \A t \in TaskIds :
        \/ IsPrefix(statusLog[t], <<Pending, Processing, Complete>>)
        \/ IsPrefix(statusLog[t], <<Pending, Processing, Error>>)

\* C2: when the timer won the race and the invocation has handled the timeout, the
\* task's entry has status Error and the error message "Completion timed out".
C2_TimeoutMessage ==
    \A t \in TaskIds :
        TimedOut(t) /\ Has(activeTasks, t) =>
            /\ activeTasks[t].status = Error
            /\ activeTasks[t].error = "Completion timed out"

\* C3: when the timer fires before the outbound call settles, the caller receives the
\* friendly timeout text as a text-content response, never a protocol error, whether
\* or not cancelTask was called on the task before.
C3_TimeoutText ==
    \A t \in TaskIds : TimedOut(t) => response[t] = TextContent(TimeoutText)

C3_Witness ==
    \E t \in TaskIds :
        /\ TimedOut(t)
        /\ cancelTrue[t] = 1
        /\ response[t] = TextContent(TimeoutText)

\* C4: cancelTask on a Pending or Processing task returns true and leaves the task with
\* status Error and the message "Task cancelled by user"; over the life of a task it
\* returns true at most once, and once it has returned true every later call on that
\* identifier returns false (its guard is false from then on).
C4_CancelOnce ==
    /\ [][\A t \in TaskIds :
            ( /\ CancelTask(t)
              /\ Has(activeTasks, t)
              /\ activeTasks[t].status \in {Pending, Processing} )
            => /\ cancelTrue'[t] = cancelTrue[t] + 1
               /\ Has(activeTasks', t)
               /\ activeTasks'[t].status = Error
               /\ activeTasks'[t].error = "Task cancelled by user"]_vars
    /\ [](\A t \in TaskIds :
            /\ cancelTrue[t] <= 1
            /\ cancelTrue[t] = 1 => ~CanCancel(activeTasks, t))

\* cancelTask returned true, the outbound call resolved all the same, and the task is
\* Complete: a further cancelTask returns false
C4_Witness ==
    \E t \in TaskIds :
        /\ cancelTrue[t] = 1
        /\ raceResult[t].kind = "resolved"
        /\ Has(activeTasks, t)
        /\ activeTasks[t].status = Complete
        /\ ~CanCancel(activeTasks, t)

\* C5: a task cancelled by cancelTask (which returned true) ends with status Error, and
\* the caller of its invocation receives the friendly "request was cancelled" text,
\* whatever the outbound call does afterwards.
C5_CancelledOutcome ==
    \A t \in TaskIds :
        cancelTrue[t] >= 1 =>
            /\ Has(activeTasks, t) => activeTasks[t].status = Error
            /\ response[t] # NoResponse => response[t] = TextContent(CancelledText)

\* C6: an entry is never removed before the grace period (the timeout duration) has
\* elapsed since the task first reached a terminal status: until then, and before the
\* task is terminal, get(id) finds it.
C6_NoEarlyRemoval ==
    \A t \in TaskIds :
        /\ Started(t) /\ terminalAt[t] = -1 => Has(activeTasks, t)
        /\ terminalAt[t] # -1 /\ now < terminalAt[t] + COMPLETION_TIMEOUT_MS
              => Has(activeTasks, t)

\* the entry is gone at the very moment the grace period has elapsed
C6_Witness ==
    \E t \in TaskIds :
        /\ terminalAt[t] # -1
        /\ now = terminalAt[t] + COMPLETION_TIMEOUT_MS
        /\ ~Has(activeTasks, t)

\* C7 as claimed: for every outcome the entry is absent once the grace period has
\* elapsed after the task reached a terminal status.
C7_AbsentAfterGrace ==
    \A t \in TaskIds :
        terminalAt[t] # -1 /\ now > terminalAt[t] + COMPLETION_TIMEOUT_MS
            => ~Has(activeTasks, t)

HasDeleteTimer(t, due) ==
    \E i \in DOMAIN timers :
        timers[i].kind = "delete" /\ timers[i].taskId = t /\ timers[i].due = due

\* C7, amended: the grace period runs from the moment the invocation is answered.  An
\* invocation is answered no later than the timeout deadline of its task; from then
\* until the removal the entry is in the registry with a removal timer due one grace
\* period after the answer, and the entry is absent once that period has elapsed.
C7_AbsentAfterAnswer ==
    \A t \in TaskIds :
        /\ race[t] = "pending" =>
              /\ Has(activeTasks, t)
              /\ now <= activeTasks[t].created_at + COMPLETION_TIMEOUT_MS
        /\ race[t] = "settled" /\ Has(activeTasks, t) =>
              /\ HasDeleteTimer(t, settledAt[t] + COMPLETION_TIMEOUT_MS)
              /\ settledAt[t] <= activeTasks[t].created_at + COMPLETION_TIMEOUT_MS
        /\ race[t] = "settled" /\ now > settledAt[t] + COMPLETION_TIMEOUT_MS
              => ~Has(activeTasks, t)

\* a cancelled task whose invocation was answered later than it was cancelled: the entry
\* outlives the grace period counted from the cancellation, and is removed one grace
\* period after the answer
C7_Witness ==
    \E t \in TaskIds :
        /\ cancelTrue[t] = 1
        /\ settledAt[t] > terminalAt[t]
        /\ now = settledAt[t] + COMPLETION_TIMEOUT_MS
        /\ ~Has(activeTasks, t)

\* C8: when the outbound call resolves before the timer fires, the task becomes Complete
\* with progress 100 and a result whose text is the upstream first choice's text (the
\* empty string when that text is absent), and the caller receives that text as a single
\* text-content item.
UpstreamText(resp) == IF resp.text = Undefined THEN "" ELSE resp.text

C8_SuccessResult ==
    [][\A t \in TaskIds :
          raceResult[t] = NotSettled /\ raceResult'[t].kind = "resolved" =>
              LET text == UpstreamText(raceResult'[t].value)
              IN  /\ Has(activeTasks', t)
                  /\ activeTasks'[t].status = Complete
                  /\ activeTasks'[t].progress = 100
                  /\ activeTasks'[t].result # NoResult
                  /\ activeTasks'[t].result.text = text
                  /\ response'[t] = [kind |-> "content",
                                     content |-> <<[type |-> "text", text |-> text]>>]]_vars

C8_Witness ==
    \E t \in TaskIds :
        /\ raceResult[t].kind = "resolved"
        /\ raceResult[t].value.text = Undefined
        /\ Has(activeTasks, t)
        /\ activeTasks[t].status = Complete
        /\ activeTasks[t].result.text = ""
        /\ response[t] = TextContent("")

\* C9: when the outbound call fails before the timer fires and the cancellation handle is
\* not aborted, the task is marked Error with the failure's message and the caller
\* receives a protocol error of the invalid-request class carrying the upstream message.
C9_UpstreamFailure ==
    [][\A t \in TaskIds :
          ( /\ raceResult[t] = NotSettled
            /\ raceResult'[t].kind = "rejected"
            /\ raceResult'[t].value.class # "CompletionTimeoutError"
            /\ ~aborted[t] )
          => /\ Has(activeTasks', t)
             /\ activeTasks'[t].status = Error
             /\ activeTasks'[t].error = raceResult'[t].value.message
             /\ response'[t] = [kind |-> "error", code |-> "InvalidRequest",
                                message |-> <<"OpenAI API error: ",
                                              raceResult'[t].value.message>>]]_vars

C9_Witness ==
    \E t \in TaskIds :
        /\ raceResult[t].kind = "rejected"
        /\ raceResult[t].value \in ApiErrors
        /\ ~aborted[t]
        /\ response[t].kind = "error"
        /\ Has(activeTasks, t)
        /\ activeTasks[t].error = raceResult[t].value.message

\* C10: the validator returns true exactly when the input is a non-null object whose
\* prompt field is text and whose max_tokens, temperature, top_p, frequency_penalty and
\* presence_penalty are each absent or a number; fields it does not know never change
\* the answer; for every other input it returns false.
IsNonNullObject(v) == v.tag = "object" \/ v.tag = "array"
FieldPresent(v, k) == v.tag = "object" /\ k \in DOMAIN v.fields
ClaimedValid(v) ==
    /\ IsNonNullObject(v)
    /\ FieldPresent(v, "prompt") /\ v.fields["prompt"].tag = "string"
    /\ \A k \in {"max_tokens", "temperature", "top_p", "frequency_penalty", "presence_penalty"} :
          FieldPresent(v, k) => v.fields[k].tag = "number"
KnownFields ==
    {"prompt", "max_tokens", "temperature", "top_p", "frequency_penalty", "presence_penalty"}
WithoutUnknownFields(v) ==
    IF v.tag = "object"
    THEN JsObject([k \in DOMAIN v.fields \cap KnownFields |-> v.fields[k]])
    ELSE v

C10_Validator ==
    vResult # "none" =>
        /\ vResult \in {"true", "false"}
        /\ vResult = "true" <=> ClaimedValid(vInput)
        /\ vResult = "true" <=> ClaimedValid(WithoutUnknownFields(vInput))

\* accepted: a prompt, one numeric option, and a field the validator does not know
C10_Witness ==
    /\ vResult = "true"
    /\ FieldPresent(vInput, "stream")
    /\ FieldPresent(vInput, "temperature")
    /\ ~FieldPresent(vInput, "max_tokens")

\* the arguments handleCompleteTool receives: request.params.arguments, or {} when absent
ArgsOrEmpty(arguments) == IF arguments = JsUndefined THEN JsObject(<<>>) ELSE arguments

InvalidParamsError ==
    [kind |-> "error", code |-> "InvalidParams", message |-> <<"Invalid completion arguments">>]

\* C11: an invocation of complete whose arguments fail validation is answered with the
\* invalid-parameters protocol error; the registry is unchanged, no outbound call is
\* issued and no timer is armed.
C11_InvalidRejected ==
    [][\A arguments \in RequestArgs :
          ~ClaimedValid(ArgsOrEmpty(arguments)) /\ CallTool("complete", arguments) =>
              /\ lastError' = InvalidParamsError
              /\ UNCHANGED <<activeTasks, apiCalls, api, timers, race, response>>]_vars

C11_Witness ==
    /\ lastError = InvalidParamsError
    /\ activeTasks = <<>>
    /\ \A t \in TaskIds : apiCalls[t] = <<>> /\ race[t] = "idle"

\* C12: an invocation naming any capability other than "complete" is answered with the
\* method-not-found protocol error that names it; the registry is unchanged and no
\* outbound call is issued, whatever the arguments.
C12_UnknownTool ==
    [][\A name \in ToolNames \ {"complete"}, arguments \in RequestArgs :
          CallTool(name, arguments) =>
              /\ lastError' = [kind |-> "error", code |-> "MethodNotFound",
                               message |-> <<"Unknown tool: ", name>>]
              /\ UNCHANGED <<activeTasks, apiCalls, api, timers, race, response>>]_vars

C12_Witness ==
    /\ lastError.kind = "error" /\ lastError.code = "MethodNotFound"
    /\ lastError.message = <<"Unknown tool: ", "foo">>
    /\ activeTasks = <<>>
    /\ \A t \in TaskIds : apiCalls[t] = <<>> /\ race[t] = "idle"

\* the value the claim gives an optional parameter: the caller's, or the default
CallerOr(arguments, k, default) ==
    IF FieldPresent(arguments, k) THEN arguments.fields[k].val ELSE default

ExpectedCall(arguments) ==
    [model |-> "text-davinci-003",
     prompt |-> arguments.fields["prompt"].val,
     max_tokens |-> CallerOr(arguments, "max_tokens", "150"),
     temperature |-> CallerOr(arguments, "temperature", "0.7"),
     top_p |-> CallerOr(arguments, "top_p", "1.0"),
     frequency_penalty |-> CallerOr(arguments, "frequency_penalty", "0.0"),
     presence_penalty |-> CallerOr(arguments, "presence_penalty", "0.0")]

\* C13: the outbound call of a valid request carries the prompt unchanged, the configured
\* model (not a model the caller names), and for each optional parameter the caller's
\* value when supplied and otherwise 150, 0.7, 1.0, 0.0, 0.0.
C13_CallParameters ==
    [][\A arguments \in RequestArgs :
          ClaimedValid(ArgsOrEmpty(arguments)) /\ CallTool("complete", arguments) =>
              \E t \in TaskIds :
                  /\ race[t] = "idle" /\ race'[t] = "pending"
                  /\ apiCalls'[t] = <<ExpectedCall(arguments)>>]_vars

C13_Witness ==
    \E t, u \in TaskIds :
        /\ apiCalls[t] = <<[model |-> "text-davinci-003", prompt |-> Prompt,
                            max_tokens |-> "150", temperature |-> "0.7", top_p |-> "1.0",
                            frequency_penalty |-> "0.0", presence_penalty |-> "0.0"]>>
        /\ apiCalls[u] = <<[model |-> "text-davinci-003", prompt |-> Prompt,
                            max_tokens |-> "16", temperature |-> "0", top_p |-> "1.0",
                            frequency_penalty |-> "0.0", presence_penalty |-> "0.0"]>>

\* C14: every task in the registry has a result only while its status is Complete and
\* an error message only while its status is Error.
C14_ResultXorError ==
    \A t \in DOMAIN activeTasks :
        /\ activeTasks[t].result # NoResult => activeTasks[t].status = Complete
        /\ activeTasks[t].error # Undefined => activeTasks[t].status = Error

\* C15: once an invocation is answered, the status of its task (while the entry is in
\* the registry) reports the outcome that was delivered: Complete after a result, Error
\* after a timeout, a cancellation or an upstream failure.
C15_StatusReportsOutcome ==
    \A t \in DOMAIN activeTasks :
        response[t] # NoResponse =>
            /\ raceResult[t].kind = "resolved" => activeTasks[t].status = Complete
            /\ raceResult[t].kind = "rejected" => activeTasks[t].status = Error

\* C16: cancelTask called with an identifier that is absent from the registry, or whose
\* task is Complete or Error, does not return true (it returns false), does not abort the
\* task's signal and leaves the registry as it is.
C16_CancelRefused ==
    [][\A t \in TaskIds :
          /\ ~Has(activeTasks, t) \/ activeTasks[t].status \in {Complete, Error}
          /\ CancelTask(t)
          => /\ cancelTrue' = cancelTrue
             /\ aborted' = aborted
             /\ activeTasks' = activeTasks]_vars

C16_Witness ==
    /\ \E t \in TaskIds :
          /\ Has(activeTasks, t) /\ activeTasks[t].status = Complete
          /\ ~aborted[t] /\ cancelTrue[t] = 0
    /\ \E t \in TaskIds :
          /\ race[t] = "settled" /\ ~Has(activeTasks, t)
          /\ ~aborted[t] /\ cancelTrue[t] = 0

\* C17: the signal of a task becomes aborted only in a step in which cancelTask returns
\* true for that task.  When the timer wins the race the signal is not aborted and the
\* outbound call is left pending; when that call settles later, its outcome changes
\* neither the response nor the registry.
C17_AbortOnlyByCancel ==
    [][\A t \in TaskIds :
          /\ aborted'[t] /\ ~aborted[t] => cancelTrue'[t] = cancelTrue[t] + 1
          /\ raceResult[t] = NotSettled /\ raceResult'[t] = Rejected(CompletionTimeoutError) =>
                 aborted'[t] = aborted[t] /\ api'[t] = api[t]
          /\ race[t] = "settled" /\ api[t] = "pending" /\ api'[t] = "settled" =>
                 /\ response'[t] = response[t]
                 /\ raceResult'[t] = raceResult[t]
                 /\ activeTasks' = activeTasks]_vars

C17_Witness ==
    \E t \in TaskIds :
        /\ TimedOut(t) /\ ~aborted[t] /\ cancelTrue[t] = 0
        /\ api[t] = "settled"
        /\ response[t] = TextContent(TimeoutText)

\* what a status read of taskId finds in a registry
Entry(tasks, taskId) == IF Has(tasks, taskId) THEN tasks[taskId] ELSE [absent |-> TRUE]
OthersUnchanged(t) ==
    \A u \in TaskIds \ {t} : Entry(activeTasks', u) = Entry(activeTasks, u)

\* C18: the start of a task, the settlement of its outbound call, the firing of its
\* timeout timer, a cancelTask of it and its scheduled removal leave the entry of every
\* other task (presence, status and all other fields) as it was.
C18_OtherTasksUntouched ==
    [][\A t \in TaskIds :
          /\ race[t] = "idle" /\ race'[t] = "pending" => OthersUnchanged(t)
          /\ api[t] = "pending" /\ api'[t] = "settled" => OthersUnchanged(t)
          /\ cancelTrue'[t] # cancelTrue[t] => OthersUnchanged(t)
          /\ TimerDue /\ Head(timers).taskId = t /\ (TimeoutFires \/ DeleteFires) =>
                 OthersUnchanged(t)]_vars

C18_Witness ==
    \E t, u \in TaskIds :
        /\ Has(activeTasks, t) /\ TimedOut(t) /\ activeTasks[t].status = Error
        /\ Has(activeTasks, u) /\ race[u] = "pending" /\ activeTasks[u].status = Processing

\* the timeout timers armed for t and not yet fired
TimeoutTimers(list, t) ==
    Cardinality({i \in DOMAIN list : list[i].kind = "timeout" /\ list[i].taskId = t})

\* C19: the start of a valid invocation issues one outbound call and arms one timeout
\* timer; from then on, whatever happens to the task, no further outbound call is issued
\* for it and no further timeout timer is armed.
C19_SingleAttempt ==
    [][\A t \in TaskIds :
          /\ race[t] = "idle" /\ race'[t] = "pending" =>
                 /\ apiCalls[t] = <<>> /\ Len(apiCalls'[t]) = 1
                 /\ TimeoutTimers(timers, t) = 0 /\ TimeoutTimers(timers', t) = 1
          /\ race[t] # "idle" =>
                 /\ apiCalls'[t] = apiCalls[t] /\ Len(apiCalls[t]) = 1
                 /\ TimeoutTimers(timers', t) <= TimeoutTimers(timers, t)
          /\ race'[t] = "idle" => apiCalls'[t] = <<>> /\ TimeoutTimers(timers', t) = 0]_vars

C19_Witness ==
    \E t, u \in TaskIds :
        /\ raceResult[t].kind = "rejected" /\ raceResult[t].value.class = "APIError"
        /\ Len(apiCalls[t]) = 1
        /\ TimedOut(u) /\ cancelTrue[u] = 1
        /\ Len(apiCalls[u]) = 1

\* C20: every valid invocation is eventually answered, and answered once: the timer
\* settles the race at the timeout deadline even if the outbound call never settles (the
\* race is never pending past the deadline of its task), and a response, once delivered,
\* is never replaced.
C20_AnsweredOnce ==
    /\ \A t \in TaskIds : (race[t] = "pending") ~> (response[t] # NoResponse)
    /\ [][\A t \in TaskIds :
            /\ response[t] # NoResponse => response'[t] = response[t]
            /\ response'[t] # response[t] => race[t] = "pending" /\ race'[t] = "settled"
            /\ race'[t] = "pending" => now' <= activeTasks'[t].timeout_at]_vars

C20_Witness ==
    \E t \in TaskIds :
        /\ TimedOut(t) /\ api[t] = "pending"
        /\ response[t] = TextContent(TimeoutText)
        /\ Has(activeTasks, t) /\ settledAt[t] = activeTasks[t].timeout_at

====
